---- MODULE Spec2Model ----
(***************************************************************************)
(* Model of the Slack platform adapter of scs_feedback                     *)
(* (feedback/platforms/slack/services.py) over the relational store        *)
(* declared in feedback/models.py.                                         *)
(*                                                                         *)
(* The store is three tables of rows whose primary key is the row's        *)
(* position.  Every inbound interaction payload is handled by one          *)
(* synchronous call of SlackService.handle_interaction; a Python exception *)
(* is the field exc of the call's result.  The five operations of          *)
(* FeedbackService (feedback/services.py) follow their contract in the     *)
(* specification's section 4.1.                                            *)
(***************************************************************************)
EXTENDS Integers, Sequences, FiniteSets, TLC

VARIABLES
    users,      \* table User: sequence of [team_id, user_id]
    requests,   \* table Request: sequence of [sender, recipients]
    feedbacks,  \* table Feedback: sequence of rows
    sent,       \* what the last call sent through the chat client, in order
    last,       \* the last call: its payload, the path taken, the exception raised
    pc,         \* per worker: position inside get_or_create_user
    call        \* per worker: the (team_id, user_id) of its call and its return value

vars == <<users, requests, feedbacks, sent, last, pc, call>>

----------------------------------------------------------------------------
(* Bounds and input universes                                              *)

MaxUsers == 3
\* Request and Feedback rows the store holds at most, together.
MaxRows == 2

Teams == {"T1", "T2"}
UserIds == {"U1", "U2"}
Workers == {"w1", "w2"}

\* The members of the teams: who can act and who can be selected.
Members == {<<"T1", "U1">>, <<"T1", "U2">>, <<"T2", "U1">>}

\* Lists a multi-users-select can submit.
SelectedUsers == {<<"U2">>, <<"U1", "U2">>, <<"U2", "U2">>}

\* The three text inputs of the give-feedback modal.
Texts == {<<"X", "Y", "Z">>}

\* The chat-client call (1st, 2nd, ...) of a handling that raises; none if 0.
FailAt == {0, 1, 2}

Digit == <<"0", "1", "2", "3", "4", "5", "6", "7", "8", "9">>

----------------------------------------------------------------------------
(* Python's str(int) and int(str) on decimal strings, as sequences of      *)
(* characters.                                                             *)

RECURSIVE str(_)
str(n) ==
    IF n < 10 THEN <<Digit[n + 1]>>
    ELSE str(n \div 10) \o <<Digit[(n % 10) + 1]>>

DigitValue(c) ==
    (CHOOSE i \in DOMAIN Digit : Digit[i] = c) - 1

IsDigit(c) ==
    \E i \in DOMAIN Digit : Digit[i] = c

RECURSIVE IntValue(_)
IntValue(s) ==
    IF Len(s) = 1 THEN DigitValue(s[1])
    ELSE 10 * IntValue(SubSeq(s, 1, Len(s) - 1)) + DigitValue(s[Len(s)])

\* int(s): [exc, value]; ValueError on the empty string and on a non-digit.
\* Leading zeros are accepted, as Python accepts them.
int(s) ==
    IF Len(s) > 0 /\ \A i \in DOMAIN s : IsDigit(s[i])
    THEN [exc |-> "", value |-> IntValue(s)]
    ELSE [exc |-> "ValueError", value |-> 0]

\* Strings a callback_id or a button value can carry.
IdStrings == {<<>>, <<"0", "1">>} \cup {str(i) : i \in 1..MaxRows}

----------------------------------------------------------------------------
(* The store: feedback/models.py                                           *)

\* Feedback.request is nullable: the key of no Request.
NoRequest == 0

\* The uniqueness constraints User.Meta declares: none.
UserUniqueConstraints == {}

User(team_id, user_id) == [team_id |-> team_id, user_id |-> user_id]

Request(id, sender, recipients) ==
    [id |-> id, sender |-> sender, recipients |-> recipients]

Feedback(author, recipient, request, start_doing, continue_doing, stop_doing) ==
    [author |-> author, recipient |-> recipient, request |-> request,
     start_doing |-> start_doing, continue_doing |-> continue_doing,
     stop_doing |-> stop_doing]

----------------------------------------------------------------------------
(* FeedbackService, from the specification's section 4.1                   *)

UserRows(team_id, user_id) ==
    {i \in DOMAIN users : users[i] = User(team_id, user_id)}

Lowest(S) == CHOOSE i \in S : \A j \in S : i <= j

\* get_user(user_id, team_id): NotFound if absent.
get_user(user_id, team_id) ==
    IF UserRows(team_id, user_id) = {}
    THEN [exc |-> "NotFound", pk |-> 0]
    ELSE [exc |-> "", pk |-> Lowest(UserRows(team_id, user_id))]

\* get_request(id): NotFound if absent.
get_request(id) ==
    IF id \in DOMAIN requests
    THEN [exc |-> "", pk |-> id]
    ELSE [exc |-> "NotFound", pk |-> 0]

\* create_request(sender, recipients): the new row, keyed by the next id.
create_request(sender, recipients) ==
    Request(Len(requests) + 1, sender, {recipients[i] : i \in DOMAIN recipients})

\* create_feedback(...): the new row.
create_feedback(author, recipient, start_doing, continue_doing, stop_doing, request) ==
    Feedback(author, recipient, request, start_doing, continue_doing, stop_doing)

----------------------------------------------------------------------------
(* SlackService: outbound                                                  *)

\* Whether the k-th chat-client call of a handling goes through.
Delivered(k, failAt) == failAt = 0 \/ k < failAt

\* ask_feedback posting to the requester instead of the user asked.
ask_feedback_to_sender(feedback_request, user_id) ==
    [method |-> "chat_postMessage",
     client |-> users[feedback_request.sender].team_id,
     channel |-> users[feedback_request.sender].user_id,
     mention |-> users[feedback_request.sender].user_id,
     actions |-> <<[action_id |-> "give", value |-> str(feedback_request.id)],
                   [action_id |-> "ignore", value |-> <<>>]>>]

\* ask_feedback(feedback_request, user_id): the direct message with the two buttons.
ask_feedback(feedback_request, user_id) ==
    [method |-> "chat_postMessage",
     client |-> users[feedback_request.sender].team_id,
     channel |-> user_id,
     mention |-> users[feedback_request.sender].user_id,
     actions |-> <<[action_id |-> "give", value |-> str(feedback_request.id)],
                   [action_id |-> "ignore", value |-> <<>>]>>]

\* give_feedback leaving the modal's callback_id unset.
give_feedback_no_callback(team_id, request) ==
    [method |-> "views_open", client |-> team_id,
     callback_id |-> <<>>,
     blocks |-> <<IF request # NoRequest THEN "section" ELSE "giveTo",
                  "divider", "giveStart", "giveContinue", "giveStop">>,
     mention |-> IF request # NoRequest
                 THEN users[requests[request].sender].user_id ELSE ""]

\* give_feedback(team_id, trigger_id, request): the give-feedback modal;
\* request = NoRequest stands for request=None.
give_feedback(team_id, request) ==
    [method |-> "views_open", client |-> team_id,
     callback_id |-> IF request # NoRequest THEN str(requests[request].id) ELSE <<>>,
     blocks |-> <<IF request # NoRequest THEN "section" ELSE "giveTo",
                  "divider", "giveStart", "giveContinue", "giveStop">>,
     mention |-> IF request # NoRequest
                 THEN users[requests[request].sender].user_id ELSE ""]

\* send_feedback(feedback): the direct message to the feedback's recipient.
send_feedback(feedback) ==
    [method |-> "chat_postMessage",
     client |-> users[feedback.author].team_id,
     channel |-> users[feedback.recipient].user_id,
     mention |-> users[feedback.author].user_id,
     sections |-> <<feedback.start_doing, feedback.continue_doing,
                    feedback.stop_doing>>]

----------------------------------------------------------------------------
(* SlackService: inbound dispatch.  A handler's result: the path taken,    *)
(* the exception raised (none: ""), the two tables it writes, what it      *)
(* sent, what it logged and the Request ids it looked up.                  *)

Result(path, exc, reqs, fbs, msgs, log, looked_up) ==
    [path |-> path, exc |-> exc, requests |-> reqs, feedbacks |-> fbs,
     sent |-> msgs, log |-> log, looked_up |-> looked_up]

Raise(path, exc, looked_up) ==
    Result(path, exc, requests, feedbacks, <<>>, <<>>, looked_up)

\* handle_request_feedback creating the Request and notifying in one
\* transaction: a failed delivery rolls the Request back.
handle_request_feedback_rollback(payload, failAt) ==
    LET values == payload.view.state.values
        team_id == payload.user.team_id
        sender == get_user(payload.user.id, team_id)
        selected == values["requestFrom"].actionFrom.selected_users
        recipients == [i \in DOMAIN selected |-> get_user(selected[i], team_id)]
        n == Len(selected)
        request == create_request(sender.pk,
                                  [i \in DOMAIN selected |-> recipients[i].pk])
        done == IF failAt = 0 \/ failAt > n THEN n ELSE failAt - 1
    IN  IF sender.exc # ""
        THEN Raise("request", sender.exc, <<>>)
        ELSE IF \E i \in DOMAIN selected : recipients[i].exc # ""
        THEN Raise("request", "NotFound", <<>>)
        ELSE Result("request",
                    IF done < n THEN "SlackApiError" ELSE "",
                    IF done < n THEN requests ELSE Append(requests, request),
                    feedbacks,
                    [i \in 1..done |->
                        ask_feedback(request, users[recipients[i].pk].user_id)],
                    <<>>, <<>>)

handle_request_feedback(payload, failAt) ==
    LET values == payload.view.state.values
        team_id == payload.user.team_id
        sender == get_user(payload.user.id, team_id)
        selected == values["requestFrom"].actionFrom.selected_users
        recipients == [i \in DOMAIN selected |-> get_user(selected[i], team_id)]
        n == Len(selected)
        request == create_request(sender.pk,
                                  [i \in DOMAIN selected |-> recipients[i].pk])
        done == IF failAt = 0 \/ failAt > n THEN n ELSE failAt - 1
    IN  IF sender.exc # ""
        THEN Raise("request", sender.exc, <<>>)
        ELSE IF \E i \in DOMAIN selected : recipients[i].exc # ""
        THEN Raise("request", "NotFound", <<>>)
        ELSE Result("request",
                    IF done < n THEN "SlackApiError" ELSE "",
                    Append(requests, request), feedbacks,
                    [i \in 1..done |->
                        ask_feedback(request, users[recipients[i].pk].user_id)],
                    <<>>, <<>>)

\* handle_give_feedback addressing the answer to its own author.
handle_give_feedback_to_author(payload, failAt) ==
    LET values == payload.view.state.values
        team_id == payload.user.team_id
        author == get_user(payload.user.id, team_id)
        free == "giveTo" \in DOMAIN values
        to == get_user(values["giveTo"].actionTo.selected_user, team_id)
        callback_id == int(payload.view.callback_id)
        request == get_request(callback_id.value)
        recipient == IF free THEN to.pk ELSE author.pk
        feedback == create_feedback(author.pk, recipient,
                                    values["giveStart"].actionStart.value,
                                    values["giveContinue"].actionContinue.value,
                                    values["giveStop"].actionStop.value,
                                    IF free THEN NoRequest ELSE request.pk)
    IN  IF author.exc # ""
        THEN Raise("give", author.exc, <<>>)
        ELSE IF free /\ to.exc # ""
        THEN Raise("give", to.exc, <<>>)
        ELSE IF ~free /\ callback_id.exc # ""
        THEN Raise("give", callback_id.exc, <<>>)
        ELSE IF ~free /\ request.exc # ""
        THEN Raise("give", request.exc, <<callback_id.value>>)
        ELSE Result("give",
                    IF Delivered(1, failAt) THEN "" ELSE "SlackApiError",
                    requests, Append(feedbacks, feedback),
                    IF Delivered(1, failAt) THEN <<send_feedback(feedback)>> ELSE <<>>,
                    <<>>,
                    IF free THEN <<>> ELSE <<callback_id.value>>)

\* handle_give_feedback linking the Request a callback_id names even when the
\* recipient was selected freely.
handle_give_feedback_by_callback(payload, failAt) ==
    LET values == payload.view.state.values
        team_id == payload.user.team_id
        author == get_user(payload.user.id, team_id)
        callback_id == int(payload.view.callback_id)
        request == get_request(callback_id.value)
        linked == callback_id.exc = "" /\ request.exc = ""
        free == "giveTo" \in DOMAIN values /\ ~linked
        to == get_user(values["giveTo"].actionTo.selected_user, team_id)
        recipient == IF free THEN to.pk ELSE requests[request.pk].sender
        feedback == create_feedback(author.pk, recipient,
                                    values["giveStart"].actionStart.value,
                                    values["giveContinue"].actionContinue.value,
                                    values["giveStop"].actionStop.value,
                                    IF free THEN NoRequest ELSE request.pk)
    IN  IF author.exc # ""
        THEN Raise("give", author.exc, <<>>)
        ELSE IF free /\ to.exc # ""
        THEN Raise("give", to.exc, <<>>)
        ELSE IF ~free /\ callback_id.exc # ""
        THEN Raise("give", callback_id.exc, <<>>)
        ELSE IF ~free /\ request.exc # ""
        THEN Raise("give", request.exc, <<callback_id.value>>)
        ELSE Result("give",
                    IF Delivered(1, failAt) THEN "" ELSE "SlackApiError",
                    requests, Append(feedbacks, feedback),
                    IF Delivered(1, failAt) THEN <<send_feedback(feedback)>> ELSE <<>>,
                    <<>>,
                    IF free THEN <<>> ELSE <<callback_id.value>>)

handle_give_feedback(payload, failAt) ==
    LET values == payload.view.state.values
        team_id == payload.user.team_id
        author == get_user(payload.user.id, team_id)
        free == "giveTo" \in DOMAIN values
        to == get_user(values["giveTo"].actionTo.selected_user, team_id)
        callback_id == int(payload.view.callback_id)
        request == get_request(callback_id.value)
        recipient == IF free THEN to.pk ELSE requests[request.pk].sender
        feedback == create_feedback(author.pk, recipient,
                                    values["giveStart"].actionStart.value,
                                    values["giveContinue"].actionContinue.value,
                                    values["giveStop"].actionStop.value,
                                    IF free THEN NoRequest ELSE request.pk)
    IN  IF author.exc # ""
        THEN Raise("give", author.exc, <<>>)
        ELSE IF free /\ to.exc # ""
        THEN Raise("give", to.exc, <<>>)
        ELSE IF ~free /\ callback_id.exc # ""
        THEN Raise("give", callback_id.exc, <<>>)
        ELSE IF ~free /\ request.exc # ""
        THEN Raise("give", request.exc, <<callback_id.value>>)
        ELSE Result("give",
                    IF Delivered(1, failAt) THEN "" ELSE "SlackApiError",
                    requests, Append(feedbacks, feedback),
                    IF Delivered(1, failAt) THEN <<send_feedback(feedback)>> ELSE <<>>,
                    <<>>,
                    IF free THEN <<>> ELSE <<callback_id.value>>)

\* The loop over payload["actions"], from the i-th action on; acc is the
\* result so far.
RECURSIVE handle_actions(_, _, _, _)
handle_actions(payload, failAt, i, acc) ==
    IF i > Len(payload.actions) THEN acc
    ELSE LET action == payload.actions[i]
             value == int(action.value)
             request == get_request(value.value)
             seen == Append(acc.looked_up, value.value)
         IN  IF action.action_id = "give"
             THEN IF value.exc # ""
                  THEN [acc EXCEPT !.exc = value.exc]
                  ELSE IF request.exc # ""
                  THEN [acc EXCEPT !.exc = request.exc, !.looked_up = seen]
                  ELSE IF ~Delivered(Len(acc.sent) + 1, failAt)
                  THEN [acc EXCEPT !.exc = "SlackApiError", !.looked_up = seen]
                  ELSE handle_actions(payload, failAt, i + 1,
                           [acc EXCEPT !.looked_up = seen,
                                       !.sent = Append(@, give_feedback(payload.team.id,
                                                                        request.pk))])
             ELSE handle_actions(payload, failAt, i + 1,
                      [acc EXCEPT !.log = Append(@, <<"Unhandled action received",
                                                      action.action_id>>)])

\* handle_interaction testing for the start text before the request input.
handle_interaction_give_first(payload, failAt) ==
    IF payload.type = "view_submission"
    THEN IF "giveStart" \in DOMAIN payload.view.state.values
         THEN handle_give_feedback(payload, failAt)
         ELSE IF "requestFrom" \in DOMAIN payload.view.state.values
         THEN handle_request_feedback(payload, failAt)
         ELSE Result("unhandled_submission", "", requests, feedbacks, <<>>,
                     <<<<"Unhandled submission received", "">>>>, <<>>)
    ELSE IF payload.type = "block_actions"
    THEN handle_actions(payload, failAt, 1,
                        Result("actions", "", requests, feedbacks, <<>>, <<>>, <<>>))
    ELSE Result("unhandled_payload", "", requests, feedbacks, <<>>,
                <<<<"Unhandled payload received", payload.type>>>>, <<>>)

\* handle_interaction sending every submission without the request input to
\* handle_give_feedback, which then misses its start text.
handle_interaction_else_give(payload, failAt) ==
    IF payload.type = "view_submission"
    THEN IF "requestFrom" \in DOMAIN payload.view.state.values
         THEN handle_request_feedback(payload, failAt)
         ELSE IF "giveStart" \in DOMAIN payload.view.state.values
         THEN handle_give_feedback(payload, failAt)
         ELSE Raise("unhandled_submission", "KeyError", <<>>)
    ELSE IF payload.type = "block_actions"
    THEN handle_actions(payload, failAt, 1,
                        Result("actions", "", requests, feedbacks, <<>>, <<>>, <<>>))
    ELSE Result("unhandled_payload", "", requests, feedbacks, <<>>,
                <<<<"Unhandled payload received", payload.type>>>>, <<>>)

handle_interaction(payload, failAt) ==
    IF payload.type = "view_submission"
    THEN IF "requestFrom" \in DOMAIN payload.view.state.values
         THEN handle_request_feedback(payload, failAt)
         ELSE IF "giveStart" \in DOMAIN payload.view.state.values
         THEN handle_give_feedback(payload, failAt)
         ELSE Result("unhandled_submission", "", requests, feedbacks, <<>>,
                     <<<<"Unhandled submission received", "">>>>, <<>>)
    ELSE IF payload.type = "block_actions"
    THEN handle_actions(payload, failAt, 1,
                        Result("actions", "", requests, feedbacks, <<>>, <<>>, <<>>))
    ELSE Result("unhandled_payload", "", requests, feedbacks, <<>>,
                <<<<"Unhandled payload received", payload.type>>>>, <<>>)

----------------------------------------------------------------------------
(* Inbound payloads                                                        *)

GiveKeys == {"giveStart", "giveContinue", "giveStop"}

Values(keys, selected, to, texts) ==
    [k \in keys |->
        CASE k = "requestFrom" -> [actionFrom |-> [selected_users |-> selected]]
          [] k = "giveTo" -> [actionTo |-> [selected_user |-> to]]
          [] k = "giveStart" -> [actionStart |-> [value |-> texts[1]]]
          [] k = "giveContinue" -> [actionContinue |-> [value |-> texts[2]]]
          [] k = "giveStop" -> [actionStop |-> [value |-> texts[3]]]]

ViewSubmissionPayload(member, callback_id, values) ==
    [type |-> "view_submission",
     user |-> [id |-> member[2], team_id |-> member[1]],
     team |-> [id |-> member[1]],
     view |-> [callback_id |-> callback_id, state |-> [values |-> values]]]

BlockActionsPayload(team_id, actions) ==
    [type |-> "block_actions", team |-> [id |-> team_id], actions |-> actions]

\* The request-feedback modal submitted.
RequestForms ==
    {ViewSubmissionPayload(m, <<>>, Values({"requestFrom"}, sel, "", t)) :
        m \in Members, sel \in SelectedUsers, t \in Texts}

\* The give-feedback modal opened for a request submitted, under any callback_id.
AnswerForms ==
    {ViewSubmissionPayload(m, c, Values(GiveKeys, <<>>, "", t)) :
        m \in Members, c \in IdStrings, t \in Texts}

\* The give-feedback modal with the user-select submitted.
FreeForms ==
    {ViewSubmissionPayload(m, c, Values(GiveKeys \cup {"giveTo"}, <<>>, to, t)) :
        m \in Members, c \in {<<>>, str(1)}, to \in UserIds, t \in Texts}

\* Submissions mixing the request input with the others, and ones with neither
\* the request input nor the start text.
OddForms ==
    {ViewSubmissionPayload(m, str(1), Values(keys, <<"U1", "U2">>, "U1", t)) :
        m \in Members, t \in Texts,
        keys \in {{"requestFrom"} \cup GiveKeys,
                  {"requestFrom", "giveTo"} \cup GiveKeys,
                  {"requestFrom", "giveTo"}, {"giveTo"}, {}}}

Give(v) == [action_id |-> "give", value |-> v]

Ignore == [action_id |-> "ignore", value |-> <<>>]

\* The lists of buttons a block_actions payload can carry.
ActionLists ==
    {<<Give(v)>> : v \in IdStrings}
    \cup {<<Ignore>>, <<[action_id |-> "other", value |-> <<>>]>>}
    \cup {<<Give(str(1)), Give(str(1))>>, <<Ignore, Give(str(1))>>,
          <<Give(str(1)), Ignore>>, <<Give(str(MaxRows)), Give(str(1))>>}

----------------------------------------------------------------------------
(* The state machine                                                       *)

NoCall == [team_id |-> "", user_id |-> "", ret |-> 0]

Idle ==
    [payload |-> [type |-> ""], path |-> "", exc |-> "", log |-> <<>>,
     looked_up |-> <<>>, before |-> <<0, 0>>]

Init ==
    /\ users = <<>>
    /\ requests = <<>>
    /\ feedbacks = <<>>
    /\ sent = <<>>
    /\ last = Idle
    /\ pc = [w \in Workers |-> "idle"]
    /\ call = [w \in Workers |-> NoCall]

\* One call of handle_interaction(payload), in which the failAt-th chat-client
\* call raises.
Handle(payload, failAt) ==
    LET r == handle_interaction(payload, failAt)
    IN  /\ last = Idle
        /\ Len(r.requests) + Len(r.feedbacks) <= MaxRows
        /\ requests' = r.requests
        /\ feedbacks' = r.feedbacks
        /\ sent' = r.sent
        /\ last' = [payload |-> payload, path |-> r.path, exc |-> r.exc,
                    log |-> r.log, looked_up |-> r.looked_up,
                    before |-> <<Len(requests), Len(feedbacks)>>]
        /\ UNCHANGED <<users, pc, call>>

ViewSubmission ==
    \E payload \in RequestForms \cup AnswerForms \cup FreeForms, failAt \in FailAt :
        Handle(payload, failAt)

OddSubmission ==
    \E payload \in OddForms : Handle(payload, 0)

BlockActions ==
    \E team_id \in Teams, actions \in ActionLists, failAt \in FailAt :
        Handle(BlockActionsPayload(team_id, actions), failAt)

OtherPayload ==
    \E team_id \in Teams :
        Handle([type |-> "view_closed", team |-> [id |-> team_id]], 0)

\* The call is over: its response has gone out.
Return ==
    /\ last # Idle
    /\ last' = Idle
    /\ sent' = <<>>
    /\ UNCHANGED <<users, requests, feedbacks, pc, call>>

\* get_or_create_user(team_id, user_id) run to completion by one caller, on
\* the user's first interaction.
GetOrCreateUser ==
    \E m \in Members :
        /\ last = Idle
        /\ UserRows(m[1], m[2]) = {}
        /\ users' = Append(users, User(m[1], m[2]))
        /\ UNCHANGED <<requests, feedbacks, sent, last, pc, call>>

Next ==
    \/ GetOrCreateUser
    \/ ViewSubmission
    \/ OddSubmission
    \/ BlockActions
    \/ OtherPayload
    \/ Return

Spec == Init /\ [][Next]_vars

----------------------------------------------------------------------------
(* get_or_create_user under concurrent callers: the lookup and the insert  *)
(* are two statements of the store, and other callers run between them.    *)

\* The lookup: return the row if there is one, else go on to create it.
GetUser(w) ==
    \E m \in Members :
        /\ pc[w] = "idle"
        /\ IF UserRows(m[1], m[2]) # {}
           THEN /\ pc' = [pc EXCEPT ![w] = "done"]
                /\ call' = [call EXCEPT ![w] = [team_id |-> m[1], user_id |-> m[2],
                                                ret |-> Lowest(UserRows(m[1], m[2]))]]
           ELSE /\ pc' = [pc EXCEPT ![w] = "create"]
                /\ call' = [call EXCEPT ![w] = [team_id |-> m[1], user_id |-> m[2],
                                                ret |-> 0]]
        /\ UNCHANGED <<users, requests, feedbacks, sent, last>>

\* The insert: refused only by a uniqueness constraint of the table, and then
\* the existing row is fetched instead.
CreateUser(w) ==
    /\ pc[w] = "create"
    /\ IF /\ <<"team_id", "user_id">> \in UserUniqueConstraints
          /\ UserRows(call[w].team_id, call[w].user_id) # {}
       THEN /\ users' = users
            /\ call' = [call EXCEPT ![w].ret =
                            Lowest(UserRows(call[w].team_id, call[w].user_id))]
       ELSE /\ Len(users) < MaxUsers
            /\ users' = Append(users, User(call[w].team_id, call[w].user_id))
            /\ call' = [call EXCEPT ![w].ret = Len(users) + 1]
    /\ pc' = [pc EXCEPT ![w] = "done"]
    /\ UNCHANGED <<requests, feedbacks, sent, last>>

\* The caller takes the returned User and goes on.
ReturnUser(w) ==
    /\ pc[w] = "done"
    /\ pc' = [pc EXCEPT ![w] = "idle"]
    /\ call' = [call EXCEPT ![w] = NoCall]
    /\ UNCHANGED <<users, requests, feedbacks, sent, last>>

NextRace ==
    \/ \E w \in Workers : GetUser(w)
    \/ \E w \in Workers : CreateUser(w)
    \/ \E w \in Workers : ReturnUser(w)

SpecRace == Init /\ [][NextRace]_vars

----------------------------------------------------------------------------
(* What the last call was about                                            *)

LastKeys == DOMAIN last.payload.view.state.values

LastActor == get_user(last.payload.user.id, last.payload.user.team_id)

LastSelected == last.payload.view.state.values["requestFrom"].actionFrom.selected_users

LastTexts ==
    <<last.payload.view.state.values["giveStart"].actionStart.value,
      last.payload.view.state.values["giveContinue"].actionContinue.value,
      last.payload.view.state.values["giveStop"].actionStop.value>>

RequestCreated == Len(requests) = last.before[1] + 1

FeedbackCreated == Len(feedbacks) = last.before[2] + 1

NoRowCreated == Len(requests) = last.before[1] /\ Len(feedbacks) = last.before[2]

NewRequest == requests[Len(requests)]

NewFeedback == feedbacks[Len(feedbacks)]

\* The positions of the "give" buttons of the last block_actions payload.
GivePositions ==
    {i \in DOMAIN last.payload.actions : last.payload.actions[i].action_id = "give"}

\* The position of the k-th "give" button.
GivePosition(k) ==
    CHOOSE i \in GivePositions : Cardinality({j \in GivePositions : j <= i}) = k

\* The submission of a modal by a member: its input blocks, its callback_id.
SubmissionOf(modal, m, to) ==
    ViewSubmissionPayload(m, modal.callback_id,
        Values({modal.blocks[i] : i \in DOMAIN modal.blocks} \cap (GiveKeys \cup {"giveTo"}),
               <<>>, to, <<"X", "Y", "Z">>))

----------------------------------------------------------------------------
(* The claims                                                              *)

\* C1: the request-feedback path resolves the sender and every selected
\* recipient by lookup-or-create: it never fails with NotFound, the users it
\* names have User rows afterwards and the Request is created.
C1_RequestPathCreatesUsers ==
    last.path = "request" =>
        /\ last.exc # "NotFound"
        /\ LastActor.exc = ""
        /\ \A i \in DOMAIN LastSelected :
               get_user(LastSelected[i], last.payload.user.team_id).exc = ""
        /\ RequestCreated

\* C2: a view_submission with "requestFrom" takes the request-feedback path
\* whatever else it carries, one with "giveStart" and no "requestFrom" takes
\* the give-feedback path, and no submission takes both.
C2_SubmissionRouting ==
    last.payload.type = "view_submission" =>
        /\ "requestFrom" \in LastKeys => last.path = "request"
        /\ ("giveStart" \in LastKeys /\ "requestFrom" \notin LastKeys)
               => last.path = "give"
        /\ ("giveStart" \notin LastKeys /\ "requestFrom" \notin LastKeys)
               => last.path = "unhandled_submission"
        /\ last.path = "request" => Len(feedbacks) = last.before[2]
        /\ last.path = "give" => Len(requests) = last.before[1]
        /\ last.path = "unhandled_submission" => NoRowCreated

C2_Witness ==
    /\ last.payload.type = "view_submission"
    /\ {"requestFrom", "giveStart", "giveTo"} \subseteq LastKeys
    /\ last.path = "request"
    /\ last.exc = ""
    /\ RequestCreated

C4_AnswerGoesToRequester ==
    /\ \A i \in DOMAIN feedbacks :
           feedbacks[i].request # NoRequest =>
               /\ feedbacks[i].request \in DOMAIN requests
               /\ feedbacks[i].recipient = requests[feedbacks[i].request].sender
    /\ (last.path = "give" /\ "giveTo" \notin LastKeys
            /\ last.exc \in {"", "SlackApiError"}) =>
           /\ FeedbackCreated
           /\ users[NewFeedback.author]
                  = User(last.payload.user.team_id, last.payload.user.id)
           /\ int(last.payload.view.callback_id)
                  = [exc |-> "", value |-> NewFeedback.request]
           /\ NewFeedback.request \in DOMAIN requests
           /\ NewFeedback.recipient = requests[NewFeedback.request].sender
           /\ <<NewFeedback.start_doing, NewFeedback.continue_doing,
                NewFeedback.stop_doing>> = LastTexts
           /\ last.exc = "" =>
                  /\ Len(sent) = 1
                  /\ sent[1].method = "chat_postMessage"
                  /\ sent[1].channel = users[NewFeedback.recipient].user_id
                  /\ sent[1].mention = last.payload.user.id
                  /\ sent[1].sections = LastTexts
           /\ last.exc = "SlackApiError" => sent = <<>>

C4_Witness ==
    /\ last.path = "give"
    /\ "giveTo" \notin LastKeys
    /\ last.exc = ""
    /\ NewFeedback.request = 1
    /\ NewFeedback.author # NewFeedback.recipient
    /\ Len(sent) = 1

\* C5: the k-th modal a block_actions payload opens answers its k-th "give"
\* button: the Request int(value) was looked up, the modal's callback_id is
\* that Request's id as a string, it has no "giveTo" input, and its
\* submission is matched back to the same Request; handled without error,
\* every "give" button has its modal.
C5_GiveOpensModalForRequest ==
    last.path = "actions" =>
        /\ Len(sent) <= Cardinality(GivePositions)
        /\ last.exc = "" => Len(sent) = Cardinality(GivePositions)
        /\ \A k \in DOMAIN sent :
               LET v == int(last.payload.actions[GivePosition(k)].value)
               IN  /\ v.exc = ""
                   /\ v.value \in DOMAIN requests
                   /\ last.looked_up[k] = v.value
                   /\ sent[k].method = "views_open"
                   /\ sent[k].client = last.payload.team.id
                   /\ sent[k].callback_id = str(requests[v.value].id)
                   /\ \A b \in DOMAIN sent[k].blocks : sent[k].blocks[b] # "giveTo"
                   /\ \A m \in Members, to \in UserIds :
                          LET r == handle_interaction(SubmissionOf(sent[k], m, to), 0)
                          IN  /\ r.path = "give"
                              /\ get_user(m[2], m[1]).exc = "" =>
                                     /\ r.exc = ""
                                     /\ r.looked_up = <<v.value>>
                                     /\ r.feedbacks[Len(r.feedbacks)].request = v.value

C5_Witness ==
    /\ last.path = "actions"
    /\ last.exc = ""
    /\ last.payload.actions = <<Ignore, Give(<<"1">>)>>
    /\ Len(sent) = 1
    /\ sent[1].callback_id = <<"1">>
    /\ \E m \in Members : get_user(m[2], m[1]).exc = ""

C7_UnrecognizedIsDropped ==
    [][/\ last'.path \in {"unhandled_payload", "unhandled_submission"} =>
              /\ last'.exc = ""
              /\ UNCHANGED <<users, requests, feedbacks>>
              /\ sent' = <<>>
              /\ Len(last'.log) = 1
       /\ last'.path = "actions" =>
              LET actions == last'.payload.actions
                  gives == {i \in DOMAIN actions : actions[i].action_id = "give"}
              IN  /\ UNCHANGED <<users, requests, feedbacks>>
                  /\ Len(sent') <= Cardinality(gives)
                  /\ Len(last'.log) <= Len(actions) - Cardinality(gives)
                  /\ last'.exc = "" =>
                         Len(last'.log) = Len(actions) - Cardinality(gives)
                  /\ gives = {} => last'.exc = ""
                  /\ \A i \in DOMAIN last'.log :
                         last'.log[i][2] \in {"ignore", "other"}]_vars

C7_Witness ==
    /\ last.path = "actions"
    /\ last.payload.actions = <<Ignore>>
    /\ last.exc = ""
    /\ last.log = <<<<"Unhandled action received", "ignore">>>>
    /\ sent = <<>>
    /\ Len(requests) = 1
    /\ Len(users) = 3

\* C8: in the request-feedback path the Request is persisted before any
\* message is sent; when an ask message fails the error propagates, the
\* Request stays with all its recipients and the messages already sent stay
\* sent.
C8_RequestSurvivesFailedDelivery ==
    /\ (last.path = "request" /\ sent # <<>>) => RequestCreated
    /\ (last.path = "request" /\ last.exc = "SlackApiError") =>
           /\ RequestCreated
           /\ users[NewRequest.sender]
                  = User(last.payload.user.team_id, last.payload.user.id)
           /\ {users[r] : r \in NewRequest.recipients}
                  = {User(last.payload.user.team_id, LastSelected[i]) :
                         i \in DOMAIN LastSelected}
           /\ Len(sent) < Len(LastSelected)
           /\ \A i \in DOMAIN sent :
                  /\ sent[i].channel = LastSelected[i]
                  /\ sent[i].actions[1].value = str(NewRequest.id)

C8_Witness ==
    /\ last.path = "request"
    /\ last.exc = "SlackApiError"
    /\ Len(LastSelected) = 2
    /\ Len(sent) = 1
    /\ Cardinality(NewRequest.recipients) = 2

\* C9: under any interleaving of get_or_create_user calls the User table
\* holds at most one row per (team_id, user_id), and finished calls for the
\* same pair return the same row.
C9_NoDuplicateUsers ==
    /\ \A i, j \in DOMAIN users : users[i] = users[j] => i = j
    /\ \A v, w \in Workers :
           (/\ pc[v] = "done" /\ pc[w] = "done"
            /\ call[v].team_id = call[w].team_id
            /\ call[v].user_id = call[w].user_id)
               => call[v].ret = call[w].ret

\* C10: every Feedback's author and recipient are of one team, and the
\* feedback message goes out through the client of the recipient's team.
C10_FeedbackStaysInTeam ==
    /\ \A i \in DOMAIN feedbacks :
           users[feedbacks[i].author].team_id = users[feedbacks[i].recipient].team_id
    /\ (last.path = "give" /\ sent # <<>>) =>
           sent[1].client = users[NewFeedback.recipient].team_id

====
